---- MODULE Spec2Model ----
(***************************************************************************)
(* KazagumoPlayer: the per-guild player state machine, its queue slots,    *)
(* the worker (shoukaku) notifications it handles and the play() calls     *)
(* that are suspended at `await current.resolve()`.                        *)
(***************************************************************************)
EXTENDS Integers, Sequences, FiniteSets, TLC

\* ---------------------------------------------------------------- bounds
NTracks == 2
MaxResults == 2
MaxCalls == 2
MaxQueue == 2
MaxPending == 2

\* ------------------------------------------------------------- encodings
\* null / undefined (queue.current, queue.previous, voiceId, an absent argument)
Null == 0
\* an argument of the wrong type (a non-boolean pause, a non-track, NaN)
Invalid == -1
\* an event published with no payload besides the player
NoArg == -2

Tracks == 1..NTracks
VoiceIds == {1}
TextIds == {1}
Volumes == {100}
LoopModes == {"none", "queue", "track"}
Reasons == {"STOPPED", "REPLACED", "LOAD_FAILED", "CLEAN_UP"}
PassThrough == {"PlayerUpdate", "PlayerStuck", "PlayerResumed"}

VARIABLES
  state,       \* PlayerState
  paused, playing, loop, voiceId, textId,
  current,     \* queue.current
  previous,    \* queue.previous
  queue,       \* the pending sequence (the array part of KazagumoQueue)
  susp,        \* play() calls suspended at the await: the track each captured
  listening,   \* the shoukaku listeners of the constructor are attached
  registered,  \* kazagumo.players holds this guild
  lastOp,      \* the operation of the last step and how it returned
  emitted,     \* the events the last step published, in order
  sent,        \* the requests the last step made to its collaborators, in order
  ent,         \* a KazagumoTrack: the fields resolve() reads and writes
  env,         \* what resolve() finds: search results, node, options
  tOp,         \* the resolve() calls made on ent and how the last one went
  snap,        \* observer: ent as the first resolve() call left it
  log,         \* observer: every event published since the snapshot, in order
  orig         \* observer: the snapshot <<current, pending>> of a scenario's start

pvars == <<state, paused, playing, loop, voiceId, textId, current, previous,
           queue, susp, listening, registered, lastOp, emitted, sent>>
vars == <<state, paused, playing, loop, voiceId, textId, current, previous,
          queue, susp, listening, registered, lastOp, emitted, sent, log, orig,
          ent, env, tOp, snap>>
tvars == <<ent, env, tOp, snap>>

\* the fields claims call "the player fields"
fields == <<state, paused, playing, loop, voiceId, textId, current, previous,
            queue, listening, registered>>

\* ------------------------------------------------------------- helpers
B2I(b) == IF b THEN 1 ELSE 0
Ev(e, a) == [ev |-> e, arg |-> a]
Req(r, a) == [req |-> r, arg |-> a]
Op(o, r, a) == [op |-> o, res |-> r, arg |-> a, mode |-> "-"]
OpM(o, r, m) == [op |-> o, res |-> r, arg |-> NoArg, mode |-> m]
Count(s, x) == Cardinality({i \in DOMAIN s : s[i] = x})
CountEv(s, e) == Cardinality({i \in DOMAIN s : s[i].ev = e})
CountReq(s, r) == Cardinality({i \in DOMAIN s : s[i].req = r})
nSusp == Len(susp)

\* KazagumoQueue (an Array subclass with the two slots current and previous)
size(q) == Len(q)
totalSize(cur, q) == Len(q) + (IF cur # Null THEN 1 ELSE 0)
unshift(q, t) == <<t>> \o q
push(q, t) == Append(q, t)
shiftHead(q) == IF q = <<>> THEN Null ELSE Head(q)
shiftRest(q) == IF q = <<>> THEN <<>> ELSE Tail(q)

\* a step that throws before changing anything
Throws(o, a) ==
  /\ lastOp' = Op(o, "error", a)
  /\ emitted' = <<>>
  /\ sent' = <<>>
  /\ UNCHANGED <<state, paused, playing, loop, voiceId, textId, current, previous,
                 queue, susp, listening, registered>>

InitPlayer ==
  /\ state = "CONNECTING"
  /\ paused = FALSE
  /\ playing = FALSE
  /\ loop = "none"
  /\ voiceId \in VoiceIds
  /\ textId \in TextIds
  /\ current = Null
  /\ previous = Null
  /\ queue = <<>>
  /\ susp = <<>>
  /\ listening = TRUE
  /\ registered = TRUE
  /\ lastOp = Op("new", "ok", NoArg)
  /\ emitted = <<>>
  /\ sent = <<>>
  /\ log = <<>>
  /\ orig = <<Null, <<>>>>

\* a player, and no track entity under observation
Init == InitPlayer /\ ent = Null /\ env = Null /\ tOp = Null /\ snap = Null

\* ------------------------------------------------------- pause (177-186)
\* line 180 without the empty-queue test
pauseNoop_NoSizeTest(x) == paused = x

pauseNoop(x) == paused = x \/ totalSize(current, queue) = 0
pausedAfter(x) == IF pauseNoop(x) THEN paused ELSE x
playingAfter(x) == IF pauseNoop(x) THEN playing ELSE ~x
pauseSent(x) == IF pauseNoop(x) THEN <<>> ELSE <<Req("setPaused", B2I(x))>>

pause(a) ==
  IF a = Invalid THEN Throws("pause", a)
  ELSE
    /\ paused' = pausedAfter(a = 1)
    /\ playing' = playingAfter(a = 1)
    /\ sent' = pauseSent(a = 1)
    /\ emitted' = <<>>
    /\ lastOp' = Op("pause", "ok", a)
    /\ UNCHANGED <<state, loop, voiceId, textId, current, previous, queue, susp,
                   listening, registered>>

\* ---------------------------------------- setTextChannel (193-199)
setTextChannel(id) ==
  IF state = "DESTROYED" THEN Throws("setTextChannel", id)
  ELSE
    /\ textId' = id
    /\ lastOp' = Op("setTextChannel", "ok", id)
    /\ emitted' = <<>>
    /\ sent' = <<>>
    /\ UNCHANGED <<state, paused, playing, loop, voiceId, current, previous, queue,
                   susp, listening, registered>>

\* --------------------------------------- setVoiceChannel (206-224)
\* line 207 left out
setVoiceChannelThrows_NoGuard == FALSE

setVoiceChannelThrows == state = "DESTROYED"

setVoiceChannel(id) ==
  IF setVoiceChannelThrows THEN Throws("setVoiceChannel", id)
  ELSE
    /\ state' = "CONNECTING"
    /\ voiceId' = id
    /\ sent' = <<Req("voiceState", id)>>
    /\ emitted' = <<Ev("Debug", NoArg)>>
    /\ lastOp' = Op("setVoiceChannel", "ok", id)
    /\ UNCHANGED <<paused, playing, loop, textId, current, previous, queue, susp,
                   listening, registered>>

\* ----------------------------------------------- setLoop (231-245)
LoopArgs == LoopModes \cup {"undefined", "invalid"}

\* lines 233-235 cycling the other way round
loopCycle_Backwards(l) == IF l = "none" THEN "track"
                          ELSE IF l = "track" THEN "queue"
                          ELSE IF l = "queue" THEN "none"
                          ELSE l

loopCycle(l) == IF l = "none" THEN "queue"
                ELSE IF l = "queue" THEN "track"
                ELSE IF l = "track" THEN "none"
                ELSE l

setLoop(m) ==
  IF m = "undefined" THEN
    /\ loop' = loopCycle(loop)
    /\ lastOp' = OpM("setLoop", "ok", m)
    /\ emitted' = <<>>
    /\ sent' = <<>>
    /\ UNCHANGED <<state, paused, playing, voiceId, textId, current, previous, queue,
                   susp, listening, registered>>
  ELSE IF m \in LoopModes THEN
    /\ loop' = m
    /\ lastOp' = OpM("setLoop", "ok", m)
    /\ emitted' = <<>>
    /\ sent' = <<>>
    /\ UNCHANGED <<state, paused, playing, voiceId, textId, current, previous, queue,
                   susp, listening, registered>>
  ELSE
    /\ lastOp' = OpM("setLoop", "error", m)
    /\ emitted' = <<>>
    /\ sent' = <<>>
    /\ UNCHANGED <<state, paused, playing, loop, voiceId, textId, current, previous,
                   queue, susp, listening, registered>>

\* -------------------------------------------------- play (253-294)
\* the part of play() before the await: lines 253-270
playThrows(st, cur, q, track) ==
  \/ st = "DESTROYED"
  \/ track = Invalid
  \/ (track = Null /\ totalSize(cur, q) = 0)

playCurrent(cur, q, track, rc) ==
  IF track # Null THEN track
  ELSE IF cur # Null THEN cur
  ELSE shiftHead(q)

\* line 263 without the replaceCurrent test: the current is always put back
playQueue_AlwaysKeep(cur, q, track, rc) ==
  IF track # Null THEN (IF cur # Null THEN unshift(q, cur) ELSE q)
  ELSE IF cur # Null THEN q
  ELSE shiftRest(q)

playQueue(cur, q, track, rc) ==
  IF track # Null THEN (IF ~rc /\ cur # Null THEN unshift(q, cur) ELSE q)
  ELSE IF cur # Null THEN q
  ELSE shiftRest(q)

suspend(s, t) == Append(s, t)
resume(s, i) == SubSeq(s, 1, i - 1) \o SubSeq(s, i + 1, Len(s))

\* the options argument of play(): replaceCurrent true, false, or not given
PlayOpts == {"true", "false", "absent"}

\* line 260: anything but a boolean replaceCurrent becomes false
replaceCurrent(o) == o = "true"

play(track, o) ==
  IF playThrows(state, current, queue, track) THEN Throws("play", track)
  ELSE
    /\ nSusp < MaxPending
    /\ Len(playQueue(current, queue, track, replaceCurrent(o))) <= MaxQueue
    /\ current' = playCurrent(current, queue, track, replaceCurrent(o))
    /\ queue' = playQueue(current, queue, track, replaceCurrent(o))
    /\ susp' = suspend(susp, playCurrent(current, queue, track, replaceCurrent(o)))
    /\ lastOp' = [op |-> "play", res |-> "ok", arg |-> track, mode |-> o]
    /\ emitted' = <<>>
    /\ sent' = <<>>
    /\ UNCHANGED <<state, paused, playing, loop, voiceId, textId, previous,
                   listening, registered>>

\* the continuation of play() when resolve() returned the track: lines 287-293
playResolved(i) ==
  /\ i \in DOMAIN susp
  /\ susp' = resume(susp, i)
  /\ sent' = <<Req("playTrack", susp[i])>>
  /\ emitted' = <<>>
  /\ lastOp' = Op("playResolved", "ok", susp[i])
  /\ UNCHANGED <<state, paused, playing, loop, voiceId, textId, current, previous,
                 queue, listening, registered>>

\* line 282 left out: the failed track stays in queue.current
failedCurrent_Kept(cur) == cur

\* queue.current after line 282 (this.queue.current = null)
failedCurrent(cur) == Null

\* the continuation of play() when resolve() threw: lines 274-285; the play() of
\* line 283 runs up to its own await inside this step
playResolveFailed(i) ==
  /\ i \in DOMAIN susp
  /\ sent' = <<>>
  /\ lastOp' = Op("playResolveFailed", "ok", susp[i])
  /\ IF size(queue) = 0 THEN
       /\ emitted' = <<Ev("PlayerResolveError", susp[i]), Ev("Debug", NoArg),
                       Ev("PlayerEmpty", NoArg)>>
       /\ current' = failedCurrent(current)
       /\ susp' = resume(susp, i)
       /\ UNCHANGED queue
     ELSE IF playThrows(state, failedCurrent(current), queue, Null) THEN
       \* the promise of the inner play() rejects and nobody handles it
       /\ emitted' = <<Ev("PlayerResolveError", susp[i]), Ev("Debug", NoArg)>>
       /\ current' = failedCurrent(current)
       /\ susp' = resume(susp, i)
       /\ UNCHANGED queue
     ELSE
       /\ emitted' = <<Ev("PlayerResolveError", susp[i]), Ev("Debug", NoArg)>>
       /\ current' = playCurrent(failedCurrent(current), queue, Null, FALSE)
       /\ queue' = playQueue(failedCurrent(current), queue, Null, FALSE)
       /\ susp' = suspend(resume(susp, i),
                          playCurrent(failedCurrent(current), queue, Null, FALSE))
  /\ UNCHANGED <<state, paused, playing, loop, voiceId, textId, previous,
                 listening, registered>>

\* -------------------------------------------------- skip (300-306)
skip ==
  IF state = "DESTROYED" THEN Throws("skip", NoArg)
  ELSE
    /\ sent' = <<Req("stopTrack", NoArg)>>
    /\ emitted' = <<>>
    /\ lastOp' = Op("skip", "ok", NoArg)
    /\ UNCHANGED <<state, paused, playing, loop, voiceId, textId, current, previous,
                   queue, susp, listening, registered>>

\* --------------------------------------------- setVolume (313-326)
setVolume(v) ==
  IF state = "DESTROYED" \/ v = Invalid THEN Throws("setVolume", v)
  ELSE
    /\ sent' = <<Req("volume", v)>>
    /\ emitted' = <<>>
    /\ lastOp' = Op("setVolume", "ok", v)
    /\ UNCHANGED <<state, paused, playing, loop, voiceId, textId, current, previous,
                   queue, susp, listening, registered>>

\* ----------------------------------------------- connect (345-366)
connectThrows == state = "DESTROYED" \/ state = "CONNECTED" \/ voiceId # Null

connect ==
  IF connectThrows THEN Throws("connect", NoArg)
  ELSE
    /\ state' = "CONNECTED"
    /\ sent' = <<Req("voiceState", voiceId)>>
    /\ emitted' = <<Ev("Debug", NoArg)>>
    /\ lastOp' = Op("connect", "ok", NoArg)
    /\ UNCHANGED <<paused, playing, loop, voiceId, textId, current, previous, queue,
                   susp, listening, registered>>

\* -------------------------------------------- disconnect (372-394)
\* line 373 without the voice link test
disconnectThrows_StateOnly == state = "DISCONNECTED"

disconnectThrows == state = "DISCONNECTED" \/ voiceId = Null

disconnect ==
  IF disconnectThrows THEN Throws("disconnect", NoArg)
  ELSE
    /\ paused' = pausedAfter(TRUE)
    /\ playing' = playingAfter(TRUE)
    /\ sent' = pauseSent(TRUE) \o <<Req("voiceState", Null)>>
    /\ voiceId' = Null
    /\ state' = "DISCONNECTED"
    /\ emitted' = <<Ev("Debug", NoArg)>>
    /\ lastOp' = Op("disconnect", "ok", NoArg)
    /\ UNCHANGED <<loop, textId, current, previous, queue, susp, listening,
                   registered>>

\* ----------------------------------------------- destroy (400-415)
\* the guard of line 401 and the disconnect() of line 404, which throws before
\* anything is changed
\* line 401 testing DESTROYING alone, disconnect() called only with a voice link
destroyThrows_OnlyDestroying == state = "DESTROYING"

destroyThrows == state \in {"DESTROYING", "DESTROYED"} \/ disconnectThrows

destroy ==
  IF destroyThrows THEN Throws("destroy", NoArg)
  ELSE
    /\ paused' = pausedAfter(TRUE)
    /\ playing' = playingAfter(TRUE)
    /\ sent' = pauseSent(TRUE) \o <<Req("voiceState", Null),
                                    Req("destroyLavalinkPlayer", NoArg)>>
    /\ voiceId' = Null
    /\ listening' = FALSE
    /\ registered' = FALSE
    /\ state' = "DESTROYED"
    /\ emitted' = <<Ev("Debug", NoArg), Ev("PlayerDestroy", NoArg), Ev("Debug", NoArg)>>
    /\ lastOp' = Op("destroy", "ok", NoArg)
    /\ UNCHANGED <<loop, textId, current, previous, queue, susp>>

\* ------------------------------------- worker notifications (99-147)
onStart ==
  /\ listening
  /\ playing' = TRUE
  /\ emitted' = <<Ev("PlayerStart", current)>>
  /\ sent' = <<>>
  /\ lastOp' = Op("start", "ok", NoArg)
  /\ UNCHANGED <<state, paused, loop, voiceId, textId, current, previous, queue,
                 susp, listening, registered>>

\* line 115 left out: the track that failed to load stays in queue.current
endedCurrent_Kept(cur) == cur

\* queue.current after line 115 (this.queue.current = null)
endedCurrent(cur) == Null

\* line 119 with push for unshift: a looped track goes to the back
loopQueue_TrackToBack(l, cur, q) ==
  IF l \in {"track", "queue"} /\ cur # Null THEN push(q, cur) ELSE q

\* line 120 left out: loop 'queue' does not re-enqueue
loopQueue_NoQueueLoop(l, cur, q) ==
  IF l = "track" /\ cur # Null THEN unshift(q, cur) ELSE q

\* the pending sequence after the loop policy of lines 119-120
loopQueue(l, cur, q) ==
  IF l = "track" /\ cur # Null THEN unshift(q, cur)
  ELSE IF l = "queue" /\ cur # Null THEN push(q, cur)
  ELSE q

onEnd(reason) ==
  /\ listening
  /\ sent' = <<>>
  /\ lastOp' = OpM("end", "ok", reason)
  /\ IF state \in {"DESTROYING", "DESTROYED"} THEN
       /\ emitted' = <<Ev("Debug", NoArg)>>
       /\ UNCHANGED <<playing, current, previous, queue, susp>>
     ELSE IF reason = "REPLACED" THEN
       /\ emitted' = <<Ev("PlayerEnd", NoArg)>>
       /\ UNCHANGED <<playing, current, previous, queue, susp>>
     ELSE IF reason \in {"LOAD_FAILED", "CLEAN_UP"} THEN
       /\ previous' = current
       /\ playing' = FALSE
       /\ IF size(queue) = 0 THEN
            /\ emitted' = <<Ev("PlayerEmpty", NoArg)>>
            /\ UNCHANGED <<current, queue, susp>>
          ELSE
            /\ nSusp < MaxPending
            /\ emitted' = <<Ev("PlayerEnd", current)>>
            /\ current' = playCurrent(endedCurrent(current), queue, Null, FALSE)
            /\ queue' = playQueue(endedCurrent(current), queue, Null, FALSE)
            /\ susp' = suspend(susp, playCurrent(endedCurrent(current), queue, Null, FALSE))
     ELSE
       /\ previous' = current
       /\ IF size(loopQueue(loop, current, queue)) # 0 THEN
            /\ nSusp < MaxPending
            /\ emitted' = <<Ev("PlayerEnd", current)>>
            /\ current' = playCurrent(Null, loopQueue(loop, current, queue), Null, FALSE)
            /\ queue' = playQueue(Null, loopQueue(loop, current, queue), Null, FALSE)
            /\ susp' = suspend(susp, playCurrent(Null, loopQueue(loop, current, queue),
                                                 Null, FALSE))
            /\ UNCHANGED playing
          ELSE
            /\ playing' = FALSE
            /\ emitted' = <<Ev("PlayerEmpty", NoArg)>>
            /\ current' = Null
            /\ UNCHANGED <<queue, susp>>
  /\ UNCHANGED <<state, paused, loop, voiceId, textId, listening, registered>>

onClosed ==
  /\ listening
  /\ playing' = FALSE
  /\ emitted' = <<Ev("PlayerClosed", NoArg)>>
  /\ sent' = <<>>
  /\ lastOp' = Op("closed", "ok", NoArg)
  /\ UNCHANGED <<state, paused, loop, voiceId, textId, current, previous, queue,
                 susp, listening, registered>>

onException ==
  /\ listening
  /\ playing' = FALSE
  /\ emitted' = <<Ev("PlayerException", NoArg)>>
  /\ sent' = <<>>
  /\ lastOp' = Op("exception", "ok", NoArg)
  /\ UNCHANGED <<state, paused, loop, voiceId, textId, current, previous, queue,
                 susp, listening, registered>>

onPassThrough(e) ==
  /\ listening
  /\ emitted' = <<Ev(e, NoArg)>>
  /\ sent' = <<>>
  /\ lastOp' = OpM("notify", "ok", e)
  /\ UNCHANGED <<state, paused, playing, loop, voiceId, textId, current, previous,
                 queue, susp, listening, registered>>

\* ------------------------------------------------ the caller's queue
\* player.queue.add(track): the caller appends a track to the pending sequence
queueAdd(t) ==
  /\ Len(queue) < MaxQueue
  /\ queue' = push(queue, t)
  /\ lastOp' = Op("queue.add", "ok", t)
  /\ emitted' = <<>>
  /\ sent' = <<>>
  /\ UNCHANGED <<state, paused, playing, loop, voiceId, textId, current, previous,
                 susp, listening, registered>>

\* ------------------------------------------------------ specification
obs == <<log, orig, ent, env, tOp, snap>>

Next ==
  \/ \E a \in {0, 1, Invalid} : pause(a) /\ UNCHANGED obs
  \/ \E id \in TextIds : setTextChannel(id) /\ UNCHANGED obs
  \/ \E id \in VoiceIds : setVoiceChannel(id) /\ UNCHANGED obs
  \/ \E m \in LoopArgs : setLoop(m) /\ UNCHANGED obs
  \/ \E t \in Tracks \cup {Null, Invalid}, o \in PlayOpts : play(t, o) /\ UNCHANGED obs
  \/ \E i \in 1..MaxPending : playResolved(i) /\ UNCHANGED obs
  \/ \E i \in 1..MaxPending : playResolveFailed(i) /\ UNCHANGED obs
  \/ skip /\ UNCHANGED obs
  \/ \E v \in Volumes \cup {Invalid} : setVolume(v) /\ UNCHANGED obs
  \/ connect /\ UNCHANGED obs
  \/ disconnect /\ UNCHANGED obs
  \/ destroy /\ UNCHANGED obs
  \/ onStart /\ UNCHANGED obs
  \/ \E r \in Reasons : onEnd(r) /\ UNCHANGED obs
  \/ onClosed /\ UNCHANGED obs
  \/ onException /\ UNCHANGED obs
  \/ \E e \in PassThrough : onPassThrough(e) /\ UNCHANGED obs
  \/ \E t \in Tracks : queueAdd(t) /\ UNCHANGED obs

Spec == Init /\ [][Next]_vars

\* the playback operations alone: pause, play (with its continuations), skip and
\* disconnect calls, and start, end, closed and exception notifications
NextPlayback ==
  \/ \E a \in {0, 1, Invalid} : pause(a) /\ UNCHANGED obs
  \/ \E t \in Tracks \cup {Null, Invalid}, o \in PlayOpts : play(t, o) /\ UNCHANGED obs
  \/ \E i \in 1..MaxPending : playResolved(i) /\ UNCHANGED obs
  \/ \E i \in 1..MaxPending : playResolveFailed(i) /\ UNCHANGED obs
  \/ skip /\ UNCHANGED obs
  \/ disconnect /\ UNCHANGED obs
  \/ onStart /\ UNCHANGED obs
  \/ \E r \in Reasons : onEnd(r) /\ UNCHANGED obs
  \/ onClosed /\ UNCHANGED obs
  \/ onException /\ UNCHANGED obs

SpecPlayback == Init /\ [][NextPlayback]_vars

\* ------------------------------------------------- scenario observers
SeqsUpTo(n) == UNION {[1..k -> Tracks] : k \in 0..n}
ring(cur, q) == IF cur # Null THEN <<cur>> \o q ELSE q
Rot(s, k) == [i \in 1..Len(s) |-> s[((i - 1 + k) % Len(s)) + 1]]
IsErr(e) == e.ev = "PlayerResolveError"
ErrTracks(l) == [i \in 1..Len(SelectSeq(l, IsErr)) |-> SelectSeq(l, IsErr)[i].arg]
Logged == log' = log \o emitted' /\ UNCHANGED orig /\ UNCHANGED tvars

\* a live player that holds tracks and has no play() in flight
InitHolding ==
  /\ state = "CONNECTING"
  /\ paused = FALSE
  /\ voiceId \in VoiceIds
  /\ textId \in TextIds
  /\ current \in Tracks \cup {Null}
  /\ previous = Null
  /\ queue \in SeqsUpTo(MaxQueue)
  /\ totalSize(current, queue) > 0
  /\ susp = <<>>
  /\ listening = TRUE
  /\ registered = TRUE
  /\ lastOp = Op("new", "ok", NoArg)
  /\ emitted = <<>>
  /\ sent = <<>>
  /\ log = <<>>
  /\ orig = <<current, queue>>
  /\ ent = Null /\ env = Null /\ tOp = Null /\ snap = Null

\* play() on a player whose tracks all fail to resolve, and nothing else
InitFail == InitHolding /\ playing = FALSE /\ loop \in LoopModes

NextFail ==
  \/ lastOp.op = "new" /\ play(Null, "absent") /\ Logged
  \/ \E i \in 1..MaxPending : playResolveFailed(i) /\ Logged

\* a rejected resolve() promise always runs the continuation of play()
SpecFail == InitFail /\ [][NextFail]_vars /\ WF_vars(NextFail)

\* a playing player in loop 'queue' whose tracks all resolve: end notifications
\* with a default reason, as many as it holds tracks
InitCycle == InitHolding /\ playing = TRUE /\ loop = "queue" /\ current # Null

NextCycle ==
  \/ /\ CountEv(log, "PlayerEnd") < totalSize(orig[1], orig[2])
     /\ onEnd("STOPPED")
     /\ Logged
  \/ \E i \in 1..MaxPending : playResolved(i) /\ Logged

SpecCycle == InitCycle /\ [][NextCycle]_vars

\* ================================================= KazagumoTrack.resolve
\* Strings are the authors and titles themselves; lengths are milliseconds; a
\* missing or empty field is "" or 0, which JavaScript takes as false.
\* The result at position i of the search carries track, uri and identifier i;
\* the values the entity was built with are OwnId.
OwnId == MaxResults + 1

\* the 'i' flag of the regular expressions of lines 237-240
lower(s) == CASE s = "X" -> "x"
              [] s = "X - Topic" -> "x - topic"
              [] s = "X - TOPIC" -> "x - topic"
              [] s = "Z" -> "z"
              [] s = "Y" -> "y"
              [] s = "W" -> "w"
              [] OTHER -> s

\* what a search can return: tracks by X, by X's topic channel (in two
\* spellings) and by somebody else, titled Y or not, of two lengths
ResultPool == [author : {"X", "X - Topic", "X - TOPIC", "Z"},
               title : {"Y", "W"},
               length : {5000, 7000}]
ResultLists == UNION {[1..k -> ResultPool] : k \in 0..MaxResults}

\* the entities the constructor (104-124) can build: author and length may be
\* missing, realUri is the uri for a supported source and null otherwise
Entities == [track : {OwnId}, identifier : {OwnId}, uri : {OwnId},
             realUri : {0, OwnId},
             title : {"Y"}, author : {"", "X"}, length : {0, 9000},
             resolvedBySource : {FALSE}]

\* results: what node.rest.resolve returns; node: getLeastUsedNode() finds one;
\* resolveSource: sourceForceResolve includes the entity's source;
\* trackResolver: a trackResolver is configured and returns a true value
Envs == [results : ResultLists, node : BOOLEAN, resolveSource : BOOLEAN,
         trackResolver : BOOLEAN]

\* readyToPlay (166-178), kazagumo being set and sourceName non-empty
readyToPlay(e) ==
  /\ e.track # 0 /\ e.identifier # 0
  /\ e.author # "" /\ e.length # 0 /\ e.title # ""
  /\ e.uri # 0 /\ e.realUri # 0

\* lines 236-241: the first result whose author is the entity's author or that
\* author followed by " - Topic", or whose title is the entity's title, letter
\* case aside; 0 when there is none
isOfficial(e, r) ==
  \/ lower(r.author) = lower(e.author)
  \/ lower(r.author) = lower(e.author \o " - Topic")
  \/ lower(r.title) = lower(e.title)

First(S) == IF S = {} THEN 0 ELSE CHOOSE i \in S : \A j \in S : i <= j

officialTrack(e, rs) == First({i \in DOMAIN rs : isOfficial(e, rs[i])})

\* lines 244-250: the first result whose length is within 2000 ms
sameDuration(e, rs) ==
  First({i \in DOMAIN rs : /\ rs[i].length >= e.length - 2000
                           /\ rs[i].length <= e.length + 2000})

\* getTrack (221-253): the position of the result it returns
getTrackThrows(v) == ~v.node \/ v.results = <<>>

getTrack(e, rs) ==
  IF e.author # "" /\ officialTrack(e, rs) # 0 THEN officialTrack(e, rs)
  ELSE IF e.length # 0 /\ sameDuration(e, rs) # 0 THEN sameDuration(e, rs)
  ELSE 1

\* lines 196-197: resolve() returns the entity as it is
resolveReturnsEarly(e, v, forceResolve) ==
  \/ v.trackResolver
  \/ ~forceResolve /\ readyToPlay(e)
  \/ v.resolveSource /\ e.resolvedBySource

\* line 198
marked(e, v) == IF v.resolveSource THEN [e EXCEPT !.resolvedBySource = TRUE] ELSE e

\* lines 205-218
assigned(e, v, i, overwrite) ==
  LET r == v.results[i]
      e1 == [e EXCEPT !.track = i, !.realUri = i, !.length = r.length]
  IN IF overwrite \/ v.resolveSource
     THEN [e1 EXCEPT !.title = r.title, !.identifier = i, !.author = r.author,
                     !.uri = i]
     ELSE e1

\* resolve(options) (185-219) on an entity whose kazagumo is set
resolve(forceResolve, overwrite) ==
  /\ tOp.n < MaxCalls
  /\ LET early == resolveReturnsEarly(ent, env, forceResolve)
         throws == ~early /\ getTrackThrows(env)
         pick == IF early \/ throws THEN 0 ELSE getTrack(marked(ent, env), env.results)
     IN /\ ent' = IF early THEN ent
                  ELSE IF throws THEN marked(ent, env)
                  ELSE assigned(marked(ent, env), env, pick, overwrite)
        /\ tOp' = [n |-> tOp.n + 1,
                   res |-> IF throws THEN "error" ELSE "ok",
                   searched |-> ~early /\ env.node,
                   pick |-> pick,
                   plain |-> tOp.plain /\ ~forceResolve /\ ~overwrite]
        /\ snap' = IF tOp.n = 0 THEN ent' ELSE snap
  /\ UNCHANGED env

InitTrack ==
  /\ InitPlayer
  /\ ent \in Entities
  /\ env \in Envs
  /\ tOp = [n |-> 0, res |-> "new", searched |-> FALSE, pick |-> 0, plain |-> TRUE]
  /\ snap = ent

NextTrack ==
  \E forceResolve \in BOOLEAN, overwrite \in BOOLEAN :
     resolve(forceResolve, overwrite) /\ UNCHANGED pvars /\ UNCHANGED <<log, orig>>

SpecTrack == InitTrack /\ [][NextTrack]_vars
\* ================================================================ claims
PublicOps == {"pause", "setTextChannel", "setVoiceChannel", "setLoop", "play", "skip",
              "setVolume", "connect", "disconnect", "destroy"}
Dead == {"DESTROYING", "DESTROYED"}

\* C1: on a DESTROYED player every public state-mutating operation (pause,
\* setTextChannel, setVoiceChannel, setLoop, play, skip, setVolume, connect,
\* disconnect, destroy) throws and leaves state, paused, playing, loop, voiceId,
\* textId and the queue as they were.
C1_DestroyedOpsFail ==
  [][(state = "DESTROYED" /\ lastOp'.op \in PublicOps)
       => /\ lastOp'.res = "error"
          /\ UNCHANGED <<state, paused, playing, loop, voiceId, textId, current,
                         previous, queue>>]_vars

\* C2: once state is DESTROYED it is DESTROYED after every further step, public
\* operation, continuation of play() or worker notification.
C2_DestroyedIsTerminal == [][state = "DESTROYED" => state' = "DESTROYED"]_vars

\* a destroyed player on which setVoiceChannel has been called
C2_Witness == state = "DESTROYED" /\ lastOp.op = "setVoiceChannel"

\* C3: destroy() on a player that is neither DESTROYING nor DESTROYED returns
\* normally, ends DESTROYED, removes the guild from the registry, detaches the
\* worker listeners and publishes exactly one PlayerDestroy.
C3_FirstDestroySucceeds ==
  [][(state \notin Dead /\ lastOp'.op = "destroy")
       => /\ lastOp'.res = "ok"
          /\ state' = "DESTROYED"
          /\ ~registered'
          /\ ~listening'
          /\ CountEv(emitted', "PlayerDestroy") = 1]_vars

\* C4: destroy() on a DESTROYED player throws, publishes no PlayerDestroy and
\* changes no field of the player.
C4_SecondDestroyFails ==
  [][(state = "DESTROYED" /\ lastOp'.op = "destroy")
       => /\ lastOp'.res = "error"
          /\ CountEv(emitted', "PlayerDestroy") = 0
          /\ UNCHANGED fields]_vars

\* a destroyed player on which destroy() was called again
C4_Witness == state = "DESTROYED" /\ lastOp = Op("destroy", "error", NoArg)

\* C5: no playTrack request is made while the player is DESTROYING or DESTROYED.
C5_NoPlayTrackWhenDestroyed ==
  CountReq(sent, "playTrack") > 0 => state \notin Dead
\* C6: when resolve() fails inside play(), play() does not throw; it publishes
\* exactly one PlayerResolveError, for that track, makes no playTrack request, and
\* either the front pending track becomes current with a play() started on it (the
\* pending sequence was non-empty) or current is null and PlayerEmpty is published.
C6_ResolveFailureHandled ==
  [][\A t \in Tracks :
       lastOp' = Op("playResolveFailed", "ok", t)
         => /\ CountEv(emitted', "PlayerResolveError") = 1
            /\ Count(emitted', Ev("PlayerResolveError", t)) = 1
            /\ CountReq(sent', "playTrack") = 0
            /\ IF queue # <<>>
               THEN /\ current' = Head(queue)
                    /\ queue' = Tail(queue)
                    /\ \E i \in DOMAIN susp :
                         susp[i] = t /\ susp' = suspend(resume(susp, i), Head(queue))
                    /\ CountEv(emitted', "PlayerEmpty") = 0
               ELSE /\ current' = Null
                    /\ \E i \in DOMAIN susp : susp[i] = t /\ susp' = resume(susp, i)
                    /\ CountEv(emitted', "PlayerEmpty") = 1]_vars

\* the same statement for a player that is not DESTROYED when the resolution fails
ResolveFailureHandledWhileLive ==
  [][\A t \in Tracks :
       (state # "DESTROYED" /\ lastOp' = Op("playResolveFailed", "ok", t))
         => /\ CountEv(emitted', "PlayerResolveError") = 1
            /\ Count(emitted', Ev("PlayerResolveError", t)) = 1
            /\ CountReq(sent', "playTrack") = 0
            /\ IF queue # <<>>
               THEN /\ current' = Head(queue)
                    /\ queue' = Tail(queue)
                    /\ \E i \in DOMAIN susp :
                         susp[i] = t /\ susp' = suspend(resume(susp, i), Head(queue))
                    /\ CountEv(emitted', "PlayerEmpty") = 0
               ELSE /\ current' = Null
                    /\ \E i \in DOMAIN susp : susp[i] = t /\ susp' = resume(susp, i)
                    /\ CountEv(emitted', "PlayerEmpty") = 1]_vars

\* C7: play() on a live player whose n tracks (current plus pending) all fail to
\* resolve ends, with no call left in flight, after one PlayerResolveError per
\* track, in queue order, and then exactly one PlayerEmpty, with current null and
\* the pending sequence empty.
C7_Done == lastOp.op # "new" /\ nSusp = 0

C7_SelfSkipTerminates ==
  /\ [](CountEv(log, "PlayerResolveError") <= totalSize(orig[1], orig[2]))
  /\ [](C7_Done =>
          /\ ErrTracks(log) = ring(orig[1], orig[2])
          /\ CountEv(log, "PlayerEmpty") = 1
          /\ log[Len(log)].ev = "PlayerEmpty"
          /\ current = Null
          /\ queue = <<>>)
  /\ <>C7_Done

\* the chain has ended on a player that held a current and two pending tracks
C7_Witness == C7_Done /\ orig[1] # Null /\ Len(orig[2]) >= 2

\* C8: an end notification with reason LOAD_FAILED or CLEAN_UP on a player that is
\* not DESTROYING/DESTROYED and has pending tracks sets previous to the old current
\* and playing to false, publishes exactly one PlayerEnd (carrying the old current)
\* and no PlayerEmpty, makes the front pending track current whatever the loop mode
\* (the failed track is not re-enqueued) and starts a play() on it, whose
\* continuation requests playTrack for that track when the resolution succeeds.
C8_LoadFailedAdvances ==
  [][/\ \A r \in {"LOAD_FAILED", "CLEAN_UP"} :
          (state \notin Dead /\ queue # <<>> /\ lastOp' = OpM("end", "ok", r))
            => /\ previous' = current
               /\ playing' = FALSE
               /\ emitted' = <<Ev("PlayerEnd", current)>>
               /\ current' = Head(queue)
               /\ queue' = Tail(queue)
               /\ susp' = suspend(susp, Head(queue))
     /\ \A t \in Tracks :
          lastOp' = Op("playResolved", "ok", t)
            => /\ sent' = <<Req("playTrack", t)>>
               /\ \E i \in DOMAIN susp : susp[i] = t /\ susp' = resume(susp, i)]_vars

\* a LOAD_FAILED end notification has advanced a looping player past its current
C8_Witness ==
  /\ lastOp = OpM("end", "ok", "LOAD_FAILED")
  /\ emitted = <<Ev("PlayerEnd", previous)>>
  /\ previous # Null
  /\ current # Null
  /\ loop = "track"

\* C9: an end notification with a default reason in loop 'track', on a player that
\* is not DESTROYING/DESTROYED and holds a current track T, publishes PlayerEnd(T)
\* and leaves current = T, previous = T and the pending sequence as it was, with a
\* play() of T in flight; the continuation of a play() whose resolution succeeds
\* changes none of current, previous and the pending sequence.
C9_TrackLoopRepeats ==
  [][/\ (/\ state \notin Dead
         /\ loop = "track"
         /\ current # Null
         /\ lastOp' = OpM("end", "ok", "STOPPED"))
          => /\ emitted' = <<Ev("PlayerEnd", current)>>
             /\ current' = current
             /\ previous' = current
             /\ queue' = queue
             /\ susp' = suspend(susp, current)
     /\ \A t \in Tracks :
          lastOp' = Op("playResolved", "ok", t)
            => UNCHANGED <<current, previous, queue>>]_vars

\* the looped track has been started again in front of a different pending track
C9_Witness ==
  /\ lastOp = Op("playResolved", "ok", current)
  /\ loop = "track"
  /\ previous = current
  /\ current # Null
  /\ queue # <<>>
  /\ Head(queue) # current

\* C10: in loop 'queue' with every resolution succeeding, after k end
\* notifications with a default reason the tracks held (current, then the pending
\* sequence) are the original ones rotated by k: each notification moves the
\* finished current to the back and makes the front pending track current, no
\* track is lost, no PlayerEmpty is published, and after as many notifications
\* as there are tracks the original current and pending order are back.
C10_QueueLoopRotates ==
  /\ current # Null
  /\ ring(current, queue) =
       Rot(ring(orig[1], orig[2]), CountEv(log, "PlayerEnd"))
  /\ CountEv(log, "PlayerEmpty") = 0
  /\ (CountEv(log, "PlayerEnd") = totalSize(orig[1], orig[2])
        => current = orig[1] /\ queue = orig[2])

\* a full cycle over three tracks, not all the same, with every play() resolved
C10_Witness ==
  /\ CountEv(log, "PlayerEnd") = totalSize(orig[1], orig[2])
  /\ Len(orig[2]) >= 2
  /\ orig[2][1] # orig[1]
  /\ nSusp = 0
\* C11: a play() that is accepted (the player is not DESTROYED, the argument is a
\* track or absent). With a track supplied and a current C: replaceCurrent false
\* or absent puts C at the front of the pending sequence, replaceCurrent true
\* leaves the pending sequence as it was, and the supplied track is current either
\* way. With no track supplied the current stays, else the front pending track is
\* removed and becomes current. With no track supplied and totalSize 0 the call
\* throws and changes nothing.
C11_PlaySelectsTrack ==
  [][/\ \A t \in Tracks, o \in PlayOpts :
          (state # "DESTROYED" /\ current # Null
             /\ lastOp' = [op |-> "play", res |-> "ok", arg |-> t, mode |-> o])
            => /\ current' = t
               /\ queue' = IF o = "true" THEN queue ELSE <<current>> \o queue
     /\ \A t \in Tracks, o \in PlayOpts :
          (state # "DESTROYED" /\ current = Null
             /\ lastOp' = [op |-> "play", res |-> "ok", arg |-> t, mode |-> o])
            => current' = t /\ queue' = queue
     /\ \A o \in PlayOpts :
          (state # "DESTROYED"
             /\ lastOp' = [op |-> "play", res |-> "ok", arg |-> Null, mode |-> o])
            => IF current # Null
               THEN current' = current /\ queue' = queue
               ELSE queue # <<>> /\ current' = Head(queue) /\ queue' = Tail(queue)
     /\ (state # "DESTROYED" /\ totalSize(current, queue) = 0
           /\ lastOp'.op = "play" /\ lastOp'.arg = Null)
          => lastOp'.res = "error" /\ UNCHANGED fields /\ UNCHANGED susp]_vars

\* a supplied track has displaced a different current to the front of the queue
C11_Witness ==
  /\ lastOp.op = "play" /\ lastOp.res = "ok" /\ lastOp.mode = "absent"
  /\ lastOp.arg = current
  /\ queue # <<>>
  /\ Head(queue) # current
  /\ susp = <<Head(queue), current>>
\* C12: setLoop() with no argument moves loop from none to queue, from queue to
\* track and from track to none, so three such calls from any mode come back to
\* it; setLoop(m) with m one of none, queue, track sets loop to m; any other
\* argument throws and leaves loop as it was.
C12_SetLoopCycles ==
  [][/\ lastOp' = OpM("setLoop", "ok", "undefined")
          => /\ loop' = CASE loop = "none" -> "queue"
                          [] loop = "queue" -> "track"
                          [] loop = "track" -> "none"
             /\ loopCycle(loopCycle(loop')) = loop
     /\ \A m \in LoopModes : lastOp' = OpM("setLoop", "ok", m) => loop' = m
     /\ lastOp'.op = "setLoop" /\ lastOp'.mode \notin LoopModes \cup {"undefined"}
          => lastOp'.res = "error" /\ loop' = loop
     /\ lastOp'.op = "setLoop" /\ lastOp'.mode \in LoopModes \cup {"undefined"}
          => lastOp'.res = "ok"]_vars

\* an argument-less setLoop() has just moved the mode from track back to none
C12_Witness ==
  /\ lastOp = OpM("setLoop", "ok", "undefined")
  /\ loop = "none"

\* C13: pause(x) with x not a boolean throws and leaves paused as it was; with x
\* equal to paused, or totalSize 0, it changes nothing and sends no setPaused;
\* otherwise paused becomes x, playing becomes not x and exactly one setPaused(x)
\* is sent.
C13_PauseContract ==
  [][/\ lastOp'.op = "pause" /\ lastOp'.arg = Invalid
          => lastOp'.res = "error" /\ paused' = paused /\ sent' = <<>>
     /\ \A a \in {0, 1} :
          (lastOp'.op = "pause" /\ lastOp'.arg = a)
            => /\ lastOp'.res = "ok"
               /\ IF paused = (a = 1) \/ totalSize(current, queue) = 0
                  THEN UNCHANGED fields /\ UNCHANGED susp /\ sent' = <<>>
                  ELSE /\ paused' = (a = 1)
                       /\ playing' = ~(a = 1)
                       /\ sent' = <<Req("setPaused", a)>>]_vars

\* pause(true) has paused a playing player and told the worker
C13_Witness ==
  /\ lastOp = Op("pause", "ok", 1)
  /\ paused /\ ~playing
  /\ sent = <<Req("setPaused", 1)>>
\* C14: connect() fails, changing nothing and sending nothing, when the state is
\* DESTROYED or CONNECTED or voiceId is non-null; in every other case it sends
\* exactly one join payload, that is a voice state payload naming a channel, and
\* ends in state CONNECTED.
C14_ConnectJoins ==
  [][lastOp'.op = "connect"
       => IF state = "DESTROYED" \/ state = "CONNECTED" \/ voiceId # Null
          THEN lastOp'.res = "error" /\ UNCHANGED fields /\ UNCHANGED susp
               /\ sent' = <<>>
          ELSE /\ lastOp'.res = "ok"
               /\ state' = "CONNECTED"
               /\ Len(sent') = 1
               /\ sent'[1].req = "voiceState"
               /\ sent'[1].arg # Null]_vars

\* The rest of C14: the three failing cases, and one voice state payload and the
\* state CONNECTED in the others.
ConnectGuardsAndState ==
  [][lastOp'.op = "connect"
       => IF state = "DESTROYED" \/ state = "CONNECTED" \/ voiceId # Null
          THEN lastOp'.res = "error" /\ UNCHANGED fields /\ UNCHANGED susp
               /\ sent' = <<>>
          ELSE /\ lastOp'.res = "ok"
               /\ state' = "CONNECTED"
               /\ CountReq(sent', "voiceState") = 1
               /\ Len(sent') = 1]_vars

\* C15 as stated: disconnect() fails, changing nothing, when the state is
\* DISCONNECTED or voiceId is null; otherwise paused is true and playing is false
\* afterwards, one leave payload is sent, voiceId is null and the state is
\* DISCONNECTED.
C15_DisconnectPauses ==
  [][lastOp'.op = "disconnect"
       => IF state = "DISCONNECTED" \/ voiceId = Null
          THEN lastOp'.res = "error" /\ UNCHANGED fields /\ UNCHANGED susp
          ELSE /\ lastOp'.res = "ok"
               /\ paused' /\ ~playing'
               /\ Count(sent', Req("voiceState", Null)) = 1
               /\ voiceId' = Null
               /\ state' = "DISCONNECTED"]_vars

\* C15 amended: disconnect() fails, changing nothing, when the state is
\* DISCONNECTED or voiceId is null; otherwise it calls pause(true): paused becomes
\* true, playing false and one setPaused(true) is sent, unless paused was already
\* true or totalSize is 0, and then paused and playing stay as they were and no
\* setPaused is sent; it sends one leave payload and ends with voiceId null and
\* the state DISCONNECTED.
C15_DisconnectPausesUnlessNoop ==
  [][lastOp'.op = "disconnect"
       => IF state = "DISCONNECTED" \/ voiceId = Null
          THEN lastOp'.res = "error" /\ UNCHANGED fields /\ UNCHANGED susp
               /\ sent' = <<>>
          ELSE /\ lastOp'.res = "ok"
               /\ IF paused \/ totalSize(current, queue) = 0
                  THEN /\ paused' = paused /\ playing' = playing
                       /\ CountReq(sent', "setPaused") = 0
                  ELSE /\ paused' /\ ~playing'
                       /\ Count(sent', Req("setPaused", 1)) = 1
                       /\ CountReq(sent', "setPaused") = 1
               /\ Count(sent', Req("voiceState", Null)) = 1
               /\ CountReq(sent', "voiceState") = 1
               /\ voiceId' = Null
               /\ state' = "DISCONNECTED"]_vars

\* disconnect() has just paused a player that held a track
C15_Witness ==
  /\ lastOp = Op("disconnect", "ok", NoArg)
  /\ sent = <<Req("setPaused", 1), Req("voiceState", Null)>>
  /\ paused /\ ~playing
  /\ state = "DISCONNECTED" /\ voiceId = Null
\* C18: whenever play() submits a track with playTrack, that track is the one in
\* queue.current at the moment of the submission.
C18_SubmitsCurrent ==
  lastOp.op = "playResolved" /\ CountReq(sent, "playTrack") > 0
    => /\ lastOp.arg = current
       /\ \A i \in DOMAIN sent : sent[i].req = "playTrack" => sent[i].arg = current

\* C19: whenever PlayerEmpty is emitted, queue.current is null, the pending
\* sequence is empty and playing is false.
C19_EmptyMeansIdle ==
  CountEv(emitted, "PlayerEmpty") > 0
    => current = Null /\ queue = <<>> /\ ~playing
\* C16: for an entity with author X and title Y, when the search results hold
\* exactly one track whose author is "X - Topic" (whole string, letter case
\* aside), a resolve() that searches selects that track, wherever it stands in
\* the list and whatever the other results are.
C16_TopicTrackSelected ==
  [][\A i \in DOMAIN env.results :
       (/\ tOp'.n = tOp.n + 1 /\ tOp'.searched /\ tOp'.res = "ok"
        /\ ent.author = "X" /\ ent.title = "Y"
        /\ {j \in DOMAIN env.results :
              lower(env.results[j].author) = lower("X - Topic")} = {i})
         => tOp'.pick = i]_vars

\* C17: two resolve() calls in a row without forceResolve (and without any other
\* option) leave track, realUri, length, title, identifier, author, uri and
\* resolvedBySource as they were after the first call.
C17_ResolveIdempotent ==
  tOp.n = 2 /\ tOp.plain => ent = snap

\* C20: when resolve() fails on an entity whose source is in sourceForceResolve,
\* resolvedBySource is still false afterwards.
C20_FailedResolveUnmarked ==
  tOp.n > 0 /\ tOp.res = "error" /\ env.resolveSource => ~ent.resolvedBySource
\* C21: in every reachable state of a player driven by pause, play, skip and
\* disconnect calls and start, end, closed and exception notifications, paused
\* and playing are not both true.
C21_NotPausedAndPlaying == ~(paused /\ playing)
====
